---- MODULE Spec2Model ----
(***************************************************************************)
(* Model of ragger's backend layer: BackendInterface (interface.py) and    *)
(* its USB implementation LedgerWalletBackend (ledgerwallet.py).           *)
(*                                                                         *)
(* The test driver (the caller) owns one backend instance.  The transport  *)
(* (LedgerClient and its device) is the environment: it hands out handles, *)
(* queues the frames written to it and answers reads with a raw response,  *)
(* a CommException carrying (sw, data), or another I/O fault.              *)
(***************************************************************************)
EXTENDS Integers, Sequences, FiniteSets, TLC

\* ------------------------------------------------------------------ bounds
MaxRawLen == 3       \* longest raw response the device returns
MaxPending == 2      \* frames written to the device and not yet answered
MaxHandles == 2      \* handles the transport hands out over a run
MaxInstances == 3    \* backends constructed in one process

\* ------------------------------------------------------- program constants
SW_OK == 36864       \* 0x9000

RAISE_NOTHING == "RAISE_NOTHING"
RAISE_ALL_BUT_0x9000 == "RAISE_ALL_BUT_0x9000"
RAISE_ALL == "RAISE_ALL"
RaisePolicy == {RAISE_NOTHING, RAISE_ALL_BUT_0x9000, RAISE_ALL}

\* ------------------------------------------------------------ value spaces
Bytes == {0, 144}    \* 0x00 and 0x90: enough to tell 0x9000 from 0x0090
RawFrames == UNION {[1..n -> Bytes] : n \in 0..MaxRawLen}

RAPDU(status, data) == [status |-> status, data |-> data]
\* Optional[RAPDU]: Python's None, kept comparable with a RAPDU
None == [status |-> -1, data |-> <<>>]
\* sample of RAPDUs a caller hands to is_raise_required
SampleRAPDUs ==
    {RAPDU(s, d) : s \in {0, 144, SW_OK - 1, SW_OK, SW_OK + 1, 28416, 65535},
                   d \in {<<>>, <<1>>}}

\* what the transport does on a read / raw_exchange
RxNone == [kind |-> "none", raw |-> <<>>, sw |-> 0, data |-> <<>>]
RxRaw(raw) == [kind |-> "raw", raw |-> raw, sw |-> 0, data |-> <<>>]
RxComm(sw, data) == [kind |-> "comm", raw |-> <<>>, sw |-> sw, data |-> data]
RxFault == [kind |-> "fault", raw |-> <<>>, sw |-> 0, data |-> <<>>]
\* the replies of the device in a session: success, success with a payload,
\* a rejection, a CommException carrying (0x6985, payload), an I/O fault
SessionReplies ==
    {RxRaw(<<144, 0>>), RxRaw(<<1, 144, 0>>), RxRaw(<<111, 0>>),
     RxComm(27013, <<2>>), RxFault}
\* every raw response up to MaxRawLen bytes, and CommExceptions
CodecReplies ==
    {RxRaw(raw) : raw \in RawFrames}
        \cup {RxComm(27013, <<2>>), RxComm(SW_OK, <<>>)}

VARIABLES
    client,               \* self._client: 0 is None, else a handle id
    openHandles,          \* handles acquired and not closed (transport side)
    acquired,             \* number of handles handed out so far
    inScope,              \* the caller is inside `with backend:`
    raise_policy,         \* self.raise_policy
    last_async_response,  \* self._last_async_response
    asyncOpen,            \* exchange_async_raw is suspended at its yield
    asyncIO,              \* transport calls made by the latest async exchange
    lastAsync,            \* how the latest async exchange ended
    pending,              \* frames written to the device, not yet answered
    result,               \* the latest call and how it ended
    rx,                   \* what the transport delivered to the latest call
    io,                   \* transport calls made by the latest call
    logged,               \* records the latest call gave to self.apdu_logger
    handlers,             \* handlers of the shared logger "apdu_logger"
    shutdown,             \* 0 while the process runs, else 1 + exit hooks run
    asyncPolicy           \* raise_policy at the send of the async exchange
                          \* in progress or just completed, else "-"

backendVars == <<client, openHandles, acquired, raise_policy, last_async_response>>
vars == <<client, openHandles, acquired, inScope, raise_policy,
          last_async_response, asyncOpen, asyncIO, lastAsync, pending,
          result, rx, io, logged, handlers, shutdown, asyncPolicy>>

\* ------------------------------------------------------------ pure helpers
RECURSIVE from_bytes_big(_)
\* int.from_bytes(bs, "big")
from_bytes_big(bs) ==
    IF bs = <<>> THEN 0
    ELSE from_bytes_big(SubSeq(bs, 1, Len(bs) - 1)) * 256 + bs[Len(bs)]

\* Python slice raw[-2:]
Last2(raw) == IF Len(raw) <= 2 THEN raw ELSE SubSeq(raw, Len(raw) - 1, Len(raw))
\* Python slice raw[:-2]
ButLast2(raw) == IF Len(raw) <= 2 THEN <<>> ELSE SubSeq(raw, 1, Len(raw) - 2)

RECURSIVE from_bytes_little(_)
\* int.from_bytes(bs, "little")
from_bytes_little(bs) ==
    IF bs = <<>> THEN 0
    ELSE bs[1] + 256 * from_bytes_little(SubSeq(bs, 2, Len(bs)))

\* a plausible slip: the status word read in the wrong byte order
decode_little(raw) == RAPDU(from_bytes_little(Last2(raw)), ButLast2(raw))

\* RAPDU(int.from_bytes(raw_result[-2:], "big"), raw_result[:-2] or b"")
decode(raw) == RAPDU(from_bytes_big(Last2(raw)), ButLast2(raw))

\* a plausible slip: == for != in the RAISE_ALL_BUT_0x9000 case
is_raise_required_eq(policy, rapdu) ==
    \/ policy = RAISE_ALL
    \/ (policy = RAISE_ALL_BUT_0x9000 /\ rapdu.status = SW_OK)

\* BackendInterface.is_raise_required
is_raise_required(policy, rapdu) ==
    \/ policy = RAISE_ALL
    \/ (policy = RAISE_ALL_BUT_0x9000 /\ rapdu.status # SW_OK)

\* one call on the transport, with the bytes handed to it
IO(call, data) == [call |-> call, data |-> data]

Lifecycle ==
    IF client = 0 THEN "Unopened"
    ELSE IF client \in openHandles THEN "Open" ELSE "Closed"

Ret(op, kind, exc, rapdu) ==
    [op |-> op, kind |-> kind, exc |-> exc, rapdu |-> rapdu, flag |-> FALSE]

\* a plausible slip: raise ExceptionRAPDU(rapdu.status), the payload dropped
raise_policy_enforcer_no_data(op, policy, got) ==
    IF got.kind = "fault" THEN Ret(op, "raise", "TransportFailure", None)
    ELSE LET rapdu == IF got.kind = "comm" THEN RAPDU(got.sw, got.data)
                      ELSE decode(got.raw)
         IN IF is_raise_required(policy, rapdu)
            THEN Ret(op, "raise", "ExceptionRAPDU", RAPDU(rapdu.status, <<>>))
            ELSE Ret(op, "return", "", rapdu)

\* a plausible slip: the CommException is not caught and escapes
raise_policy_enforcer_no_catch(op, policy, got) ==
    IF got.kind = "fault" THEN Ret(op, "raise", "TransportFailure", None)
    ELSE IF got.kind = "comm"
    THEN Ret(op, "raise", "CommException", RAPDU(got.sw, got.data))
    ELSE LET rapdu == decode(got.raw)
         IN IF is_raise_required(policy, rapdu)
            THEN Ret(op, "raise", "ExceptionRAPDU", rapdu)
            ELSE Ret(op, "return", "", rapdu)

\* raise_policy_enforcer: the decoration around receive / exchange_raw
raise_policy_enforcer(op, policy, got) ==
    IF got.kind = "fault" THEN Ret(op, "raise", "TransportFailure", None)
    ELSE LET rapdu == IF got.kind = "comm" THEN RAPDU(got.sw, got.data)
                      ELSE decode(got.raw)
         IN IF is_raise_required(policy, rapdu)
            THEN Ret(op, "raise", "ExceptionRAPDU", rapdu)
            ELSE Ret(op, "return", "", rapdu)

\* a plausible slip: a backend that raises nothing unless told to
DefaultPolicyLenient == RAISE_NOTHING

\* self.raise_policy = RaisePolicy.RAISE_ALL_BUT_0x9000 in __init__
DefaultPolicy == RAISE_ALL_BUT_0x9000

\* what BackendInterface.__init__ adds to the shared logger: a StreamHandler,
\* and with log_apdu_file a FileHandler (mode 'w', delay=True) whose stream is
\* not opened yet; closes counts the times its stream was closed
construct(h, withFile) ==
    [streams |-> h.streams + 1,
     files |-> IF withFile
               THEN Append(h.files, [stream |-> "lazy", closes |-> 0])
               ELSE h.files]

NoHandlers == [streams |-> 0, files |-> <<>>]

InitBackend(withFile) ==
    /\ client = 0
    /\ openHandles = {}
    /\ acquired = 0
    /\ inScope = FALSE
    /\ raise_policy = DefaultPolicy
    /\ last_async_response = None
    /\ asyncOpen = FALSE
    /\ asyncIO = <<>>
    /\ lastAsync = "none"
    /\ pending = 0
    /\ result = Ret("__init__", "return", "", None)
    /\ rx = RxNone
    /\ io = <<>>
    /\ logged = <<>>
    /\ handlers = construct(NoHandlers, withFile)
    /\ shutdown = 0
    /\ asyncPolicy = "-"

\* the backend under test, constructed without log_apdu_file
Init == InitBackend(FALSE)

\* ------------------------------------------------------------------ logging
\* self.apdu_logger.debug("=> %s", data.hex())
LogOut(data) == [dir |-> "=>", data |-> data, status |-> -1]
\* self.apdu_logger.debug("<= %s%4x", rapdu.data.hex(), rapdu.status)
LogIn(rapdu) == [dir |-> "<=", data |-> rapdu.data, status |-> rapdu.status]

\* the RAPDU raise_policy_enforcer holds after its try / except
caught(got) ==
    IF got.kind = "comm" THEN RAPDU(got.sw, got.data) ELSE decode(got.raw)

\* what raise_policy_enforcer logs: nothing when the wrapped call raises
\* something else than a CommException
enforcer_log(got) == IF got.kind = "fault" THEN <<>> ELSE <<LogIn(caught(got))>>

\* a FileHandler made with delay=True opens its stream at its first record
open_lazy(files) ==
    [i \in DOMAIN files |->
        IF files[i].stream = "lazy" THEN [files[i] EXCEPT !.stream = "open"]
        ELSE files[i]]

\* a call other than the completion of an async exchange: the policy
\* remembered for an exchange that is over is dropped
KeepAsyncPolicy == asyncPolicy' = IF asyncOpen THEN asyncPolicy ELSE "-"

\* the call hands `records` to the logger; every handler emits each of them
Logs(records) ==
    /\ logged' = records
    /\ handlers' = IF records = <<>> THEN handlers
                   ELSE [handlers EXCEPT !.files = open_lazy(@)]
    /\ shutdown' = shutdown

\* ---------------------------------------------------------------- lifecycle
\* __enter__: LedgerClient(), and on any exception sleep(1) and LedgerClient()
\* once more; ok1 / ok2 say whether the first / second construction succeeds
LedgerClient(ok) == IO(IF ok THEN "open_ok" ELSE "open_fail", <<>>)

\* a plausible slip: no retry after the first failure
enter_no_retry(ok1, ok2) ==
    [ok |-> ok1, calls |-> <<LedgerClient(ok1)>>]

enter(ok1, ok2) ==
    IF ok1 THEN [ok |-> TRUE, calls |-> <<LedgerClient(TRUE)>>]
    ELSE [ok |-> ok2,
          calls |-> <<LedgerClient(FALSE), IO("sleep", <<>>), LedgerClient(ok2)>>]

\* scoped-acquisition entry: `with backend:` calls __enter__; the block is
\* entered only when __enter__ returns
\* (self.logger, used by __enter__ and handle_usb_reset for one info line, is
\* assigned by neither __init__; it is taken to be the general logger that the
\* logging set-up outside these classes puts on the instance, and its info
\* call to touch nothing of the backend)
Enter ==
    /\ ~inScope
    /\ acquired < MaxHandles
    /\ \E ok1, ok2 \in BOOLEAN :
         LET e == enter(ok1, ok2)
             h == acquired + 1
         IN /\ io' = e.calls
            /\ IF e.ok
               THEN /\ client' = h
                    /\ openHandles' = openHandles \cup {h}
                    /\ acquired' = h
                    /\ inScope' = TRUE
                    /\ result' = Ret("__enter__", "return", "", None)
               ELSE /\ UNCHANGED <<client, openHandles, acquired, inScope>>
                    /\ result' = Ret("__enter__", "raise", "TransportFailure", None)
    /\ Logs(<<>>)
    /\ KeepAsyncPolicy
    /\ rx' = RxNone
    /\ UNCHANGED <<raise_policy, last_async_response, asyncOpen, asyncIO,
                   lastAsync, pending>>

\* a plausible slip: the handle is not released
close_leaks(handles, h) == handles

\* what self._client.close() leaves open
close(handles, h) == handles \ {h}

\* __exit__: assert self._client is not None; self._client.close()
DoClose ==
    /\ IF client = 0
       THEN /\ result' = Ret("__exit__", "raise", "AssertionError", None)
            /\ io' = <<>>
            /\ UNCHANGED openHandles
       ELSE /\ result' = Ret("__exit__", "return", "", None)
            /\ io' = <<IO("close", <<>>)>>
            /\ openHandles' = close(openHandles, client)
    /\ Logs(<<>>)
    /\ KeepAsyncPolicy
    /\ rx' = RxNone
    /\ UNCHANGED <<client, acquired, raise_policy, last_async_response,
                   asyncOpen, asyncIO, lastAsync, pending>>

\* scoped-acquisition exit: the with statement calls __exit__ on every path
\* out of the block, normal or exceptional (an open async block is unwound
\* first, see AsyncAbort)
Exit ==
    /\ inScope
    /\ ~asyncOpen
    /\ inScope' = FALSE
    /\ DoClose

\* the caller closes the backend itself, in whatever state it is
Close ==
    /\ UNCHANGED inScope
    /\ DoClose

\* a plausible slip: the new handle acquired before the old one is released
ResetReopensFirst ==
    /\ inScope
    /\ acquired < MaxHandles
    /\ client # 0
    /\ \E ok1, ok2 \in BOOLEAN :
         LET e == enter(ok1, ok2)
             h == acquired + 1
         IN /\ io' = e.calls \o <<IO("close", <<>>)>>
            /\ IF e.ok
               THEN /\ client' = h
                    /\ openHandles' = close(openHandles, client) \cup {h}
                    /\ acquired' = h
                    /\ result' = Ret("handle_usb_reset", "return", "", None)
               ELSE /\ UNCHANGED <<client, openHandles, acquired>>
                    /\ result' = Ret("handle_usb_reset", "raise",
                                     "TransportFailure", None)
    /\ Logs(<<>>)
    /\ KeepAsyncPolicy
    /\ rx' = RxNone
    /\ UNCHANGED <<inScope, raise_policy, last_async_response, asyncOpen,
                   asyncIO, lastAsync, pending>>

\* handle_usb_reset: self.__exit__() then self.__enter__(); the driver calls
\* it during a session, that is inside the scope
Reset ==
    /\ inScope
    /\ acquired < MaxHandles
    /\ \E ok1, ok2 \in BOOLEAN :
         LET e == enter(ok1, ok2)
             h == acquired + 1
         IN IF client = 0
            THEN /\ result' = Ret("handle_usb_reset", "raise", "AssertionError", None)
                 /\ io' = <<>>
                 /\ UNCHANGED <<client, openHandles, acquired>>
            ELSE /\ io' = <<IO("close", <<>>)>> \o e.calls
                 /\ IF e.ok
                    THEN /\ client' = h
                         /\ openHandles' = close(openHandles, client) \cup {h}
                         /\ acquired' = h
                         /\ result' = Ret("handle_usb_reset", "return", "", None)
                    ELSE /\ openHandles' = close(openHandles, client)
                         /\ UNCHANGED <<client, acquired>>
                         /\ result' = Ret("handle_usb_reset", "raise",
                                          "TransportFailure", None)
    /\ Logs(<<>>)
    /\ KeepAsyncPolicy
    /\ rx' = RxNone
    /\ UNCHANGED <<inScope, raise_policy, last_async_response, asyncOpen,
                   asyncIO, lastAsync, pending>>

\* the caller assigns backend.raise_policy
SetPolicy ==
    \E p \in RaisePolicy :
        /\ p # raise_policy
        /\ raise_policy' = p
        /\ result' = Ret("set_raise_policy", "return", "", None)
        /\ Logs(<<>>)
        /\ KeepAsyncPolicy
        /\ rx' = RxNone
        /\ io' = <<>>
        /\ UNCHANGED <<client, openHandles, acquired, inScope,
                       last_async_response, asyncOpen, asyncIO, lastAsync,
                       pending>>

\* the caller evaluates backend.is_raise_required(rapdu)
IsRaiseRequired ==
    \E rapdu \in SampleRAPDUs :
        /\ result' = [Ret("is_raise_required", "return", "", rapdu)
                         EXCEPT !.flag = is_raise_required(raise_policy, rapdu)]
        /\ Logs(<<>>)
        /\ KeepAsyncPolicy
        /\ rx' = RxNone
        /\ io' = <<>>
        /\ UNCHANGED <<client, openHandles, acquired, inScope, raise_policy,
                       last_async_response, asyncOpen, asyncIO, lastAsync,
                       pending>>

\* ------------------------------------------------------------- transport I/O
\* the largest payload a command frame carries: its length is one byte
MaxPayloadLen == 255

Payload(n) == [i \in 1..n |-> 0]

\* the caller's commands and raw frames
Commands ==
    {[cla |-> 224, ins |-> 1, p1 |-> 0, p2 |-> 0, data |-> <<>>],
     [cla |-> 224, ins |-> 2, p1 |-> 0, p2 |-> 1, data |-> <<1, 2>>],
     [cla |-> 224, ins |-> 3, p1 |-> 0, p2 |-> 0, data |-> Payload(MaxPayloadLen)],
     [cla |-> 224, ins |-> 3, p1 |-> 0, p2 |-> 0, data |-> Payload(MaxPayloadLen + 1)]}
RawData == {<<224, 1, 0, 0, 0>>}

\* ragger.utils.pack_APDU: CLA INS P1 P2 LEN DATA, refused when the payload
\* does not fit the one-byte length
pack_APDU(cmd) ==
    IF Len(cmd.data) > MaxPayloadLen
    THEN [ok |-> FALSE, frame |-> <<>>]
    ELSE [ok |-> TRUE,
          frame |-> <<cmd.cla, cmd.ins, cmd.p1, cmd.p2, Len(cmd.data)>> \o cmd.data]

\* a plausible slip: the command header handed to the transport before the
\* payload is packed
PackFailsAfterWrite(op) ==
    /\ op = "exchange_async" => ~asyncOpen
    /\ client \in openHandles
    /\ pending < MaxPending
    /\ result' = Ret(op, "raise", "FrameTooLarge", None)
    /\ rx' = RxNone
    /\ io' = <<IO("write", <<224, 3, 0, 0>>)>>
    /\ pending' = pending + 1
    /\ Logs(<<>>)
    /\ IF op = "exchange_async"
       THEN asyncIO' = <<>> /\ lastAsync' = "raised"
       ELSE UNCHANGED <<asyncIO, lastAsync>>
    /\ UNCHANGED <<client, openHandles, acquired, inScope, raise_policy,
                   last_async_response, asyncOpen>>
    /\ KeepAsyncPolicy

\* send / exchange / exchange_async evaluate pack_APDU(...) as the argument of
\* the raw call: when packing raises, the raw call is never made (exchange_async:
\* the generator is not created and the caller's block is not entered)
PackFails(op) ==
    /\ op = "exchange_async" => ~asyncOpen
    /\ result' = Ret(op, "raise", "FrameTooLarge", None)
    /\ rx' = RxNone
    /\ io' = <<>>
    /\ Logs(<<>>)
    /\ IF op = "exchange_async"
       THEN asyncIO' = <<>> /\ lastAsync' = "raised"
       ELSE UNCHANGED <<asyncIO, lastAsync>>
    /\ UNCHANGED <<client, openHandles, acquired, inScope, raise_policy,
                   last_async_response, asyncOpen, pending>>
    /\ KeepAsyncPolicy

\* a plausible slip: send_raw opens the transport itself when it finds none
DoSendRawAutoOpen(op, data) ==
    /\ pending < MaxPending
    /\ IF client \in openHandles
       THEN /\ io' = <<IO("write", data)>>
            /\ UNCHANGED <<client, acquired, openHandles>>
       ELSE /\ acquired < MaxHandles
            /\ client' = acquired + 1
            /\ acquired' = acquired + 1
            /\ openHandles' = openHandles \cup {acquired + 1}
            /\ io' = <<LedgerClient(TRUE), IO("write", data)>>
    /\ result' = Ret(op, "return", "", None)
    /\ pending' = pending + 1
    /\ Logs(<<LogOut(data)>>)
    /\ rx' = RxNone
    /\ UNCHANGED <<inScope, raise_policy, last_async_response, asyncOpen,
                   asyncIO, lastAsync>>
    /\ KeepAsyncPolicy

\* send_raw: self.apdu_logger.debug("=> ..."); assert self._client is not None;
\* self._client.device.write(data)
\* (the transport refuses a call on a handle that was closed; a write on an
\* open handle is capped at MaxPending unanswered frames)
DoSendRaw(op, data) ==
    /\ IF client = 0
       THEN /\ result' = Ret(op, "raise", "AssertionError", None)
            /\ io' = <<>>
            /\ UNCHANGED pending
       ELSE IF client \notin openHandles
       THEN /\ result' = Ret(op, "raise", "TransportFailure", None)
            /\ io' = <<>>
            /\ UNCHANGED pending
       ELSE /\ pending < MaxPending
            /\ result' = Ret(op, "return", "", None)
            /\ io' = <<IO("write", data)>>
            /\ pending' = pending + 1
    /\ Logs(<<LogOut(data)>>)
    /\ rx' = RxNone
    /\ UNCHANGED <<client, openHandles, acquired, inScope, raise_policy,
                   last_async_response, asyncOpen, asyncIO, lastAsync>>
    /\ KeepAsyncPolicy

SendRaw == \E data \in RawData : DoSendRaw("send_raw", data)

\* send: self.send_raw(pack_APDU(cla, ins, p1, p2, data))
Send ==
    \E cmd \in Commands :
        LET packed == pack_APDU(cmd)
        IN IF packed.ok THEN DoSendRaw("send", packed.frame) ELSE PackFails("send")

\* a plausible slip: receive itself remembers the response it returns
DoReceiveStores(replies) ==
    /\ client \in openHandles
    /\ pending > 0
    /\ \E got \in replies :
         LET out == raise_policy_enforcer("receive", raise_policy, got)
         IN /\ rx' = got
            /\ result' = out
            /\ pending' = IF got.kind = "fault" THEN pending ELSE pending - 1
            /\ Logs(enforcer_log(got))
            /\ last_async_response' = IF out.kind = "return" THEN out.rapdu
                                      ELSE last_async_response
    /\ io' = <<IO("read", <<>>)>>
    /\ UNCHANGED <<client, openHandles, acquired, inScope, raise_policy,
                   asyncOpen, asyncIO, lastAsync>>
    /\ KeepAsyncPolicy

\* receive, under raise_policy_enforcer: device.read blocks until the device
\* has a reply for a frame written earlier; replies is what it may deliver
DoReceive(replies) ==
    /\ IF client = 0
       THEN /\ result' = Ret("receive", "raise", "AssertionError", None)
            /\ rx' = RxNone
            /\ io' = <<>>
            /\ Logs(<<>>)
            /\ UNCHANGED pending
       ELSE IF client \notin openHandles
       THEN /\ result' = Ret("receive", "raise", "TransportFailure", None)
            /\ rx' = RxNone
            /\ io' = <<>>
            /\ Logs(<<>>)
            /\ UNCHANGED pending
       ELSE /\ pending > 0
            /\ \E got \in replies :
                 /\ rx' = got
                 /\ result' = raise_policy_enforcer("receive", raise_policy, got)
                 /\ pending' = IF got.kind = "fault" THEN pending ELSE pending - 1
                 /\ Logs(enforcer_log(got))
            /\ io' = <<IO("read", <<>>)>>
    /\ UNCHANGED <<client, openHandles, acquired, inScope, raise_policy,
                   last_async_response, asyncOpen, asyncIO, lastAsync>>
    /\ KeepAsyncPolicy

Receive == DoReceive(SessionReplies)

\* a plausible slip: the frame written twice
DoExchangeRawTwice(op, data, replies) ==
    /\ client \in openHandles
    /\ pending < MaxPending
    /\ \E got \in replies :
         /\ rx' = got
         /\ result' = raise_policy_enforcer(op, raise_policy, got)
         /\ Logs(<<LogOut(data)>> \o enforcer_log(got))
    /\ pending' = pending + 1
    /\ io' = <<IO("write", data), IO("write", data), IO("read", <<>>)>>
    /\ UNCHANGED <<client, openHandles, acquired, inScope, raise_policy,
                   last_async_response, asyncOpen, asyncIO, lastAsync>>
    /\ KeepAsyncPolicy

\* exchange_raw, under raise_policy_enforcer: self.apdu_logger.debug("=> ...");
\* assert; self._client.raw_exchange(data) writes the frame and reads the next
\* reply of the device; a fault leaves the frame written and no reply read
DoExchangeRaw(op, data, replies) ==
    /\ IF client = 0
       THEN /\ result' = Ret(op, "raise", "AssertionError", None)
            /\ rx' = RxNone
            /\ io' = <<>>
            /\ Logs(<<LogOut(data)>>)
            /\ UNCHANGED pending
       ELSE IF client \notin openHandles
       THEN /\ result' = Ret(op, "raise", "TransportFailure", None)
            /\ rx' = RxNone
            /\ io' = <<>>
            /\ Logs(<<LogOut(data)>>)
            /\ UNCHANGED pending
       ELSE /\ \E got \in replies :
                 /\ rx' = got
                 /\ result' = raise_policy_enforcer(op, raise_policy, got)
                 /\ Logs(<<LogOut(data)>> \o enforcer_log(got))
                 /\ IF got.kind = "fault"
                    THEN pending < MaxPending /\ pending' = pending + 1
                    ELSE pending' = pending
            /\ io' = <<IO("write", data), IO("read", <<>>)>>
    /\ UNCHANGED <<client, openHandles, acquired, inScope, raise_policy,
                   last_async_response, asyncOpen, asyncIO, lastAsync>>
    /\ KeepAsyncPolicy

ExchangeRaw ==
    \E data \in RawData : DoExchangeRaw("exchange_raw", data, SessionReplies)

\* exchange: self.exchange_raw(pack_APDU(cla, ins, p1, p2, data))
Exchange ==
    \E cmd \in Commands :
        LET packed == pack_APDU(cmd)
        IN IF packed.ok THEN DoExchangeRaw("exchange", packed.frame, SessionReplies)
           ELSE PackFails("exchange")

\* ----------------------------------------------------------- async exchange
\* a plausible slip: the receive done before the yield
DoAsyncEnterEager(op, data) ==
    /\ ~asyncOpen
    /\ IF client = 0 \/ client \notin openHandles
       THEN /\ result' = Ret(op, "raise",
                            IF client = 0 THEN "AssertionError" ELSE "TransportFailure",
                            None)
            /\ io' = <<>>
            /\ asyncIO' = <<>>
            /\ lastAsync' = "raised"
            /\ UNCHANGED <<pending, asyncOpen>>
            /\ KeepAsyncPolicy
       ELSE /\ result' = Ret(op, "yield", "", None)
            /\ io' = <<IO("write", data), IO("read", <<>>)>>
            /\ pending' = pending
            /\ asyncOpen' = TRUE
            /\ asyncIO' = <<"send", "recv">>
            /\ lastAsync' = "open"
            /\ asyncPolicy' = raise_policy
    /\ Logs(<<LogOut(data)>>)
    /\ rx' = RxNone
    /\ UNCHANGED <<client, openHandles, acquired, inScope, raise_policy,
                   last_async_response>>

\* exchange_async_raw up to its yield: self.send_raw(data), then the caller's
\* block is entered; when send_raw raises the block is never entered
DoAsyncEnter(op, data) ==
    /\ ~asyncOpen
    /\ IF client = 0
       THEN /\ result' = Ret(op, "raise", "AssertionError", None)
            /\ io' = <<>>
            /\ asyncIO' = <<>>
            /\ lastAsync' = "raised"
            /\ UNCHANGED <<pending, asyncOpen>>
            /\ KeepAsyncPolicy
       ELSE IF client \notin openHandles
       THEN /\ result' = Ret(op, "raise", "TransportFailure", None)
            /\ io' = <<>>
            /\ asyncIO' = <<>>
            /\ lastAsync' = "raised"
            /\ UNCHANGED <<pending, asyncOpen>>
            /\ KeepAsyncPolicy
       ELSE /\ pending < MaxPending
            /\ result' = Ret(op, "yield", "", None)
            /\ io' = <<IO("write", data)>>
            /\ pending' = pending + 1
            /\ asyncOpen' = TRUE
            /\ asyncIO' = <<"send">>
            /\ lastAsync' = "open"
            /\ asyncPolicy' = raise_policy
    /\ Logs(<<LogOut(data)>>)
    /\ rx' = RxNone
    /\ UNCHANGED <<client, openHandles, acquired, inScope, raise_policy,
                   last_async_response>>

ExchangeAsyncRawEnter == \E data \in RawData : DoAsyncEnter("exchange_async_raw", data)

\* exchange_async: with self.exchange_async_raw(pack_APDU(...)): yield
ExchangeAsyncEnter ==
    \E cmd \in Commands :
        LET packed == pack_APDU(cmd)
        IN IF packed.ok THEN DoAsyncEnter("exchange_async", packed.frame)
           ELSE PackFails("exchange_async")

\* a plausible slip: the policy captured when the command was sent
exit_policy_at_send(now, atSend) == atSend

\* the policy the generator's receive classifies with: self.raise_policy is
\* read by raise_policy_enforcer after the reply is in
exit_policy(now, atSend) == now

\* the caller's block ends normally and the generator resumes after its
\* yield: self._last_async_response = self.receive()
DoAsyncExit(replies) ==
    /\ asyncOpen
    /\ asyncOpen' = FALSE
    /\ asyncPolicy' = asyncPolicy
    /\ IF client = 0 \/ client \notin openHandles
       THEN /\ result' = Ret("exchange_async_raw", "raise",
                            IF client = 0 THEN "AssertionError" ELSE "TransportFailure",
                            None)
            /\ rx' = RxNone
            /\ io' = <<>>
            /\ lastAsync' = "raised"
            /\ Logs(<<>>)
            /\ UNCHANGED <<pending, asyncIO, last_async_response>>
       ELSE /\ pending > 0
            /\ \E got \in replies :
                 LET out == raise_policy_enforcer("exchange_async_raw",
                                exit_policy(raise_policy, asyncPolicy), got)
                 IN /\ rx' = got
                    /\ result' = out
                    /\ pending' = IF got.kind = "fault" THEN pending ELSE pending - 1
                    /\ Logs(enforcer_log(got))
                    /\ IF out.kind = "return"
                       THEN /\ last_async_response' = out.rapdu
                            /\ lastAsync' = "ok"
                       ELSE /\ UNCHANGED last_async_response
                            /\ lastAsync' = "raised"
            /\ io' = <<IO("read", <<>>)>>
            /\ asyncIO' = Append(asyncIO, "recv")
    /\ UNCHANGED <<client, openHandles, acquired, inScope, raise_policy>>

AsyncExit == DoAsyncExit(SessionReplies)

\* a plausible slip: try: yield / finally: self.receive(), the reply drained
\* on the way out of an aborted block
AsyncAbortDrain ==
    /\ asyncOpen
    /\ asyncOpen' = FALSE
    /\ asyncPolicy' = "-"
    /\ result' = Ret("exchange_async_raw", "raise", "CallerError", None)
    /\ rx' = RxNone
    /\ lastAsync' = "raised"
    /\ Logs(<<>>)
    /\ IF client \in openHandles /\ pending > 0
       THEN /\ io' = <<IO("read", <<>>)>>
            /\ pending' = pending - 1
            /\ asyncIO' = Append(asyncIO, "recv")
       ELSE /\ io' = <<>>
            /\ UNCHANGED <<pending, asyncIO>>
    /\ UNCHANGED <<client, openHandles, acquired, inScope, raise_policy,
                   last_async_response>>

\* the caller's block raises: the exception is thrown into the generator at
\* its yield, nothing catches it there, and it propagates to the caller
AsyncAbort ==
    /\ asyncOpen
    /\ asyncOpen' = FALSE
    /\ asyncPolicy' = "-"
    /\ result' = Ret("exchange_async_raw", "raise", "CallerError", None)
    /\ rx' = RxNone
    /\ io' = <<>>
    /\ lastAsync' = "raised"
    /\ Logs(<<>>)
    /\ UNCHANGED <<client, openHandles, acquired, inScope, raise_policy,
                   last_async_response, asyncIO, pending>>

\* ------------------------------------------------- UI and screen operations
\* a plausible slip: the operation left as BackendInterface declares it
DoUiNotImplemented(op, value) ==
    /\ result' = Ret(op, "raise", "NotImplementedError", None)
    /\ rx' = RxNone
    /\ io' = <<>>
    /\ Logs(<<>>)
    /\ UNCHANGED <<client, openHandles, acquired, inScope, raise_policy,
                   last_async_response, asyncOpen, asyncIO, lastAsync,
                   pending>>
    /\ KeepAsyncPolicy

\* the overrides of LedgerWalletBackend: pass, return True or return []; value
\* is what the operation returns
DoUi(op, value) ==
    /\ result' = [Ret(op, "return", "", None) EXCEPT !.flag = value]
    /\ rx' = RxNone
    /\ io' = <<>>
    /\ Logs(<<>>)
    /\ UNCHANGED <<client, openHandles, acquired, inScope, raise_policy,
                   last_async_response, asyncOpen, asyncIO, lastAsync,
                   pending>>
    /\ KeepAsyncPolicy

right_click == DoUi("right_click", FALSE)
left_click == DoUi("left_click", FALSE)
both_click == DoUi("both_click", FALSE)
finger_touch == DoUi("finger_touch", FALSE)
wait_for_screen_change == DoUi("wait_for_screen_change", FALSE)
compare_screen_with_snapshot == DoUi("compare_screen_with_snapshot", TRUE)
compare_screen_with_text == DoUi("compare_screen_with_text", TRUE)
get_current_screen_content == DoUi("get_current_screen_content", FALSE)

Next ==
    \/ Enter
    \/ Exit
    \/ Reset
    \/ SetPolicy
    \/ SendRaw
    \/ Send
    \/ Receive
    \/ ExchangeRaw
    \/ Exchange
    \/ ExchangeAsyncRawEnter
    \/ ExchangeAsyncEnter
    \/ AsyncExit
    \/ AsyncAbort
    \/ Close
    \/ right_click
    \/ left_click
    \/ both_click
    \/ finger_touch
    \/ wait_for_screen_change
    \/ compare_screen_with_snapshot
    \/ compare_screen_with_text
    \/ get_current_screen_content

Spec == Init /\ [][Next]_vars

\* ------------------------------------------------- codec and policy checks
\* The same backend, driven through receive / exchange / exchange_raw with
\* every raw response up to MaxRawLen bytes, and through is_raise_required.
CodecReceive == DoReceive(CodecReplies)
CodecExchangeRaw ==
    \E data \in RawData : DoExchangeRaw("exchange_raw", data, CodecReplies)
CodecExchange ==
    \E cmd \in Commands :
        LET packed == pack_APDU(cmd)
        IN IF packed.ok THEN DoExchangeRaw("exchange", packed.frame, CodecReplies)
           ELSE PackFails("exchange")

NextCodec ==
    \/ Enter
    \/ Exit
    \/ SetPolicy
    \/ IsRaiseRequired
    \/ Send
    \/ CodecReceive
    \/ CodecExchangeRaw
    \/ CodecExchange

SpecCodec == Init /\ [][NextCodec]_vars

\* ------------------------------------------------ diagnostics log, shutdown
\* The backend under test together with the other backends constructed in
\* the same process: all of them share logging.getLogger("apdu_logger").
InitLog == \E withFile \in BOOLEAN : InitBackend(withFile)

\* one more backend is constructed: its __init__ adds its handlers to the
\* shared logger and, with log_apdu_file, registers self._cleanup at exit
Construct ==
    /\ shutdown = 0
    /\ handlers.streams < MaxInstances
    /\ \E withFile \in BOOLEAN : handlers' = construct(handlers, withFile)
    /\ result' = Ret("construct", "return", "", None)
    /\ rx' = RxNone
    /\ io' = <<>>
    /\ logged' = <<>>
    /\ UNCHANGED <<backendVars, inScope, asyncOpen, asyncIO, lastAsync,
                   pending, shutdown>>
    /\ KeepAsyncPolicy

\* FileHandler.close(): the stream, if open, is closed; a handler whose stream
\* is not open is left as it is
close_file(f) ==
    IF f.stream = "open" THEN [stream |-> "closed", closes |-> f.closes + 1]
    ELSE f

\* _cleanup: handler.close() for every FileHandler of the shared logger
cleanup(files) == [i \in DOMAIN files |-> close_file(files[i])]

\* the exit hooks registered so far: one per backend given a log file
ExitHooks == Len(handlers.files)

\* orderly shutdown begins: no backend call is made any more
BeginShutdown ==
    /\ shutdown = 0
    /\ shutdown' = 1
    /\ result' = Ret("exit", "return", "", None)
    /\ rx' = RxNone
    /\ io' = <<>>
    /\ logged' = <<>>
    /\ UNCHANGED <<backendVars, inScope, asyncOpen, asyncIO, lastAsync,
                   pending, handlers>>
    /\ KeepAsyncPolicy

\* atexit runs the next registered hook, the _cleanup of one backend
RunExitHook ==
    /\ shutdown >= 1
    /\ shutdown <= ExitHooks
    /\ shutdown' = shutdown + 1
    /\ handlers' = [handlers EXCEPT !.files = cleanup(@)]
    /\ result' = Ret("_cleanup", "return", "", None)
    /\ rx' = RxNone
    /\ io' = <<>>
    /\ logged' = <<>>
    /\ UNCHANGED <<backendVars, inScope, asyncOpen, asyncIO, lastAsync,
                   pending>>
    /\ KeepAsyncPolicy

Running(A) == shutdown = 0 /\ A

NextLog ==
    \/ Construct
    \/ BeginShutdown
    \/ RunExitHook
    \/ Running(Enter)
    \/ Running(Exit)
    \/ Running(SendRaw)
    \/ Running(Receive)
    \/ Running(ExchangeRaw)

SpecLog == InitLog /\ [][NextLog]_vars

\* ------------------------------------------------------ ordered exchanges
\* One backend driven as the ordering rules ask: no exchange is issued while
\* an async block is open, every async block exits normally, the scope is not
\* left, and the device answers every frame, in the order received. pending
\* counts the frames written and not yet answered, so a read returns the
\* answer to the frame of the call that reads iff that frame is the only one
\* pending when the read is made.
DeviceReplies == SessionReplies \ {RxFault}

OrderedExchange ==
    /\ ~asyncOpen
    /\ \E cmd \in Commands :
         LET packed == pack_APDU(cmd)
         IN IF packed.ok THEN DoExchangeRaw("exchange", packed.frame, DeviceReplies)
            ELSE PackFails("exchange")

OrderedAsyncExit == DoAsyncExit(DeviceReplies)

NextOrder ==
    \/ Enter
    \/ SetPolicy
    \/ OrderedExchange
    \/ ExchangeAsyncEnter
    \/ OrderedAsyncExit

SpecOrder == Init /\ [][NextOrder]_vars

\* ===================================================================
\* Properties
\* ===================================================================
\* The wire format and the policy table as the specification states them.
WireStatus(raw) == raw[Len(raw) - 1] * 256 + raw[Len(raw)]
WirePayload(raw) == [i \in 1..(Len(raw) - 2) |-> raw[i]]
PolicyMandates(policy, sw) ==
    CASE policy = "RAISE_NOTHING" -> FALSE
      [] policy = "RAISE_ALL_BUT_0x9000" -> sw # 36864
      [] policy = "RAISE_ALL" -> TRUE
ReceivingOps == {"receive", "exchange_raw", "exchange"}

\* C1: is_raise_required is false under RAISE_NOTHING, true exactly when
\* sw # 0x9000 under RAISE_ALL_BUT_0x9000, true under RAISE_ALL, whatever the
\* payload; evaluating it changes nothing of the backend.
C1_RaisePolicyLaws ==
    /\ [](result.op = "is_raise_required" =>
            result.flag = PolicyMandates(raise_policy, result.rapdu.status))
    /\ [][result'.op = "is_raise_required" =>
            UNCHANGED <<client, openHandles, acquired, inScope, raise_policy,
                        last_async_response, asyncOpen, asyncIO, lastAsync,
                        pending>>]_vars

C1_Witness ==
    /\ result.op = "is_raise_required"
    /\ raise_policy = RAISE_ALL_BUT_0x9000
    /\ result.rapdu = RAPDU(SW_OK, <<1>>)
    /\ result.flag = FALSE

\* C2: for a response (at least the two status bytes) delivered to exchange,
\* exchange_raw or receive on an Open backend, the call raises the rejection
\* error carrying exactly that status word and payload iff the active policy
\* mandates raising for the status word, and otherwise returns exactly them.
C2_PolicyDecidesOutcome ==
    (result.op \in ReceivingOps /\ rx.kind = "raw" /\ Len(rx.raw) >= 2) =>
        /\ result.rapdu = RAPDU(WireStatus(rx.raw), WirePayload(rx.raw))
        /\ IF PolicyMandates(raise_policy, WireStatus(rx.raw))
           THEN result.kind = "raise" /\ result.exc = "ExceptionRAPDU"
           ELSE result.kind = "return"

C2_Witness ==
    /\ result.op = "exchange"
    /\ raise_policy = RAISE_ALL
    /\ rx = RxRaw(<<1, 144, 0>>)
    /\ result.kind = "raise"
    /\ result.exc = "ExceptionRAPDU"
    /\ result.rapdu = RAPDU(SW_OK, <<1>>)

\* C3 as stated: while the block of an async exchange is open only the send
\* has been made and last_async_response is unset.
C3_UnsetWhileOpen ==
    asyncOpen => (asyncIO = <<"send">> /\ last_async_response = None)

\* C3, amended: entering an async exchange makes exactly one write before the
\* block body runs and leaves last_async_response as it was before the call
\* (unset only if no earlier async exchange stored a response); the exchange
\* makes no receive while the block is open; the receive is made when the
\* block exits normally, and last_async_response is written only then.
C3_AsyncOrdering ==
    /\ [](asyncOpen => asyncIO = <<"send">>)
    /\ [][(~asyncOpen /\ asyncOpen') =>
            /\ Len(io') = 1
            /\ io'[1].call = "write"
            /\ rx' = RxNone
            /\ last_async_response' = last_async_response]_vars
    /\ [][(asyncOpen /\ asyncOpen') =>
            /\ asyncIO' = asyncIO
            /\ last_async_response' = last_async_response]_vars
    /\ [][(asyncOpen /\ ~asyncOpen' /\ result'.exc # "CallerError"
                /\ Lifecycle = "Open") =>
            /\ asyncIO' = <<"send", "recv">>
            /\ io' = <<IO("read", <<>>)>>]_vars
    /\ [][last_async_response' # last_async_response =>
            /\ asyncOpen /\ ~asyncOpen'
            /\ asyncIO' = <<"send", "recv">>
            /\ result'.kind = "return"
            /\ last_async_response' = result'.rapdu]_vars

C3_Witness ==
    /\ asyncOpen
    /\ asyncIO = <<"send">>
    /\ last_async_response = RAPDU(SW_OK, <<1>>)
    /\ result.kind = "yield"

C5_LastAsyncResponseDoc ==
    (Lifecycle = "Open" /\ ~asyncOpen) =>
        /\ (lastAsync \in {"none", "raised"} => last_async_response = None)
        /\ (lastAsync = "ok" => last_async_response # None)
        /\ (lastAsync = "ok" /\ result.op = "exchange_async_raw" =>
               /\ result.kind = "return"
               /\ last_async_response = result.rapdu)

\* C6: __enter__ makes one acquisition attempt, and after a failure one delay
\* and exactly one more attempt: fail-then-succeed leaves the backend Open on
\* the handle of the second attempt, fail-fail propagates the failure after
\* two attempts and one delay with no newly acquired handle.
C6_OpenRetriesOnce ==
    [][result'.op = "__enter__" =>
          LET ok == LedgerClient(TRUE)
              ko == LedgerClient(FALSE)
              zz == IO("sleep", <<>>)
              opened == /\ result'.kind = "return"
                        /\ acquired' = acquired + 1
                        /\ client' = acquired'
                        /\ client' \notin openHandles
                        /\ openHandles' = openHandles \cup {client'}
                        /\ Lifecycle' = "Open"
          IN \/ io' = <<ok>> /\ opened
             \/ io' = <<ko, zz, ok>> /\ opened
             \/ /\ io' = <<ko, zz, ko>>
                /\ result'.kind = "raise"
                /\ UNCHANGED <<client, openHandles, acquired, inScope>>]_vars

C6_Witness ==
    /\ result.op = "__enter__"
    /\ result.kind = "return"
    /\ io = <<LedgerClient(FALSE), IO("sleep", <<>>), LedgerClient(TRUE)>>
    /\ Lifecycle = "Open"

\* C7: the backend is Unopened on construction, Open after scoped entry and
\* Closed after scoped exit, and no handle acquired in the scope is left open
\* after the exit, whatever failed inside the scope.
C7_ScopeReleasesHandle ==
    /\ [](result.op = "__init__" => Lifecycle = "Unopened")
    /\ [](~inScope => openHandles = {})
    /\ [][(~inScope /\ inScope') => Lifecycle' = "Open"]_vars
    /\ [][(inScope /\ ~inScope') =>
            /\ Lifecycle' = "Closed"
            /\ openHandles' = {}]_vars

\* the first scope, left after an async block in it was aborted
C7_Witness ==
    /\ result.op = "__exit__"
    /\ acquired = 1
    /\ lastAsync = "raised"
    /\ asyncIO = <<"send">>
    /\ Lifecycle = "Closed"
    /\ openHandles = {}

\* C8: a CommException carrying (sw, data) raised by the channel during
\* receive / exchange / exchange_raw becomes the response (sw, data), which
\* the raise policy alone classifies: returned under RAISE_NOTHING, and when
\* an error escapes it is the rejection error carrying (sw, data).
C8_CommFaultBecomesResponse ==
    (result.op \in ReceivingOps /\ rx.kind = "comm") =>
        /\ result.rapdu = RAPDU(rx.sw, rx.data)
        /\ (raise_policy = RAISE_NOTHING => result.kind = "return")
        /\ (result.kind # "return" =>
               /\ result.kind = "raise"
               /\ result.exc = "ExceptionRAPDU"
               /\ PolicyMandates(raise_policy, rx.sw))

C8_Witness ==
    /\ result.op = "receive"
    /\ rx = RxComm(27013, <<2>>)
    /\ raise_policy = RAISE_NOTHING
    /\ result.kind = "return"
    /\ result.rapdu = RAPDU(27013, <<2>>)

\* C9: a raw response of fewer than 2 bytes makes receive / exchange /
\* exchange_raw fail with MalformedResponse, whatever the raise policy.
C9_ShortFrameRejected ==
    (result.op \in ReceivingOps /\ rx.kind = "raw" /\ Len(rx.raw) < 2) =>
        (result.kind = "raise" /\ result.exc = "MalformedResponse")

\* C10: under RAISE_NOTHING, exchange returns, for every raw response of at
\* least 2 bytes, the big-endian value of the last two bytes as status word
\* and exactly the preceding bytes as payload, for every command.
C10_ExchangeDecodes ==
    (result.op = "exchange" /\ raise_policy = RAISE_NOTHING
        /\ rx.kind = "raw" /\ Len(rx.raw) >= 2) =>
        /\ result.kind = "return"
        /\ result.rapdu.status = WireStatus(rx.raw)
        /\ result.rapdu.data = WirePayload(rx.raw)
        /\ Len(result.rapdu.data) = Len(rx.raw) - 2
        /\ io[1] \in {IO("write", pack_APDU(cmd).frame) :
                         cmd \in {c \in Commands : pack_APDU(c).ok}}

C10_Witness ==
    /\ result.op = "exchange"
    /\ raise_policy = RAISE_NOTHING
    /\ rx = RxRaw(<<0, 144, 0>>)
    /\ result.kind = "return"
    /\ result.rapdu = RAPDU(SW_OK, <<0>>)
    /\ io[1].data = <<224, 2, 0, 1, 2, 1, 2>>

\* C11: a send, exchange or exchange_async whose payload exceeds 255 bytes
\* signals the framing error with no transport I/O, without entering the async
\* block and with last_async_response and the raise policy unchanged; no frame
\* these operations write carries more than 255 payload bytes, and a frame
\* they write carries its payload length in its fifth byte.
PackingOps == {"send", "exchange", "exchange_async"}

C11_OversizeBeforeIO ==
    /\ [][result'.exc = "FrameTooLarge" =>
            /\ result'.op \in PackingOps
            /\ result'.kind = "raise"
            /\ io' = <<>>
            /\ rx' = RxNone
            /\ logged' = <<>>
            /\ UNCHANGED <<client, openHandles, pending, asyncOpen,
                           last_async_response, raise_policy>>]_vars
    /\ [](\A i \in DOMAIN io :
            (result.op \in PackingOps /\ io[i].call = "write") =>
                /\ Len(io[i].data) - 5 \in 0..MaxPayloadLen
                /\ io[i].data[5] = Len(io[i].data) - 5)

\* an oversized exchange_async on an Open backend holding an earlier response
C11_Witness ==
    /\ result.op = "exchange_async"
    /\ result.exc = "FrameTooLarge"
    /\ Lifecycle = "Open"
    /\ ~asyncOpen
    /\ last_async_response = RAPDU(SW_OK, <<1>>)
    /\ raise_policy = RAISE_NOTHING

\* a payload of exactly 255 bytes went out
C11_MaxPayloadSent ==
    /\ result.op = "send"
    /\ result.kind = "return"
    /\ Len(io[1].data) = 5 + MaxPayloadLen
    /\ io[1].data[5] = MaxPayloadLen

\* C12: the raise policy is read when a received response is classified: a
\* call that obtained a response raises iff the policy in force at that
\* moment mandates it, whatever the policy was at an earlier call or when the
\* command was sent; at the normal exit of an async block the policy in force
\* at the exit decides whether the exit raises and whether the response is
\* stored in last_async_response; assigning the policy touches neither the
\* transport nor last_async_response.
C12_PolicyReadAtClassification ==
    /\ [][(rx'.kind = "comm" \/ (rx'.kind = "raw" /\ Len(rx'.raw) >= 2)) =>
            LET sw == IF rx'.kind = "comm" THEN rx'.sw ELSE WireStatus(rx'.raw)
            IN /\ raise_policy' = raise_policy
               /\ result'.rapdu.status = sw
               /\ IF PolicyMandates(raise_policy, sw)
                  THEN /\ result'.kind = "raise"
                       /\ result'.exc = "ExceptionRAPDU"
                       /\ last_async_response' = last_async_response
                  ELSE /\ result'.kind = "return"
                       /\ IF result'.op = "exchange_async_raw"
                          THEN /\ asyncOpen /\ ~asyncOpen'
                               /\ last_async_response' = result'.rapdu
                          ELSE last_async_response' = last_async_response]_vars
    /\ [][raise_policy' # raise_policy =>
            /\ io' = <<>>
            /\ rx' = RxNone
            /\ UNCHANGED <<pending, asyncOpen, last_async_response>>]_vars

\* an async exchange sent under RAISE_ALL whose block set RAISE_NOTHING: the
\* exit returned 0x6F00 and stored it
C12_Witness ==
    /\ result.op = "exchange_async_raw"
    /\ ~asyncOpen
    /\ asyncPolicy = RAISE_ALL
    /\ raise_policy = RAISE_NOTHING
    /\ rx = RxRaw(<<111, 0>>)
    /\ result.kind = "return"
    /\ last_async_response = RAPDU(28416, <<>>)

\* the transport calls of one __enter__
OpenCalls ==
    {<<LedgerClient(TRUE)>>,
     <<LedgerClient(FALSE), IO("sleep", <<>>), LedgerClient(TRUE)>>,
     <<LedgerClient(FALSE), IO("sleep", <<>>), LedgerClient(FALSE)>>}

\* C13 as stated: reset on an Open backend closes, then opens, keeps the
\* configuration, and afterwards the backend is Open on a new handle.
C13_ResetLeavesOpen ==
    [][(result'.op = "handle_usb_reset" /\ Lifecycle = "Open") =>
          /\ io'[1] = IO("close", <<>>)
          /\ Tail(io') \in OpenCalls
          /\ UNCHANGED <<raise_policy, last_async_response, handlers>>
          /\ Lifecycle' = "Open"
          /\ client' # client
          /\ client' \notin openHandles]_vars

\* C13, amended: reset on an Open backend makes the close, then the calls of
\* one open (one attempt, or a failed attempt, the delay and a second attempt)
\* and no other transport call; it leaves the raise policy, last_async_response
\* and the log handlers as they were and the old handle released; when an
\* attempt succeeds the backend is Open on a newly acquired handle, and when
\* both fail reset propagates the failure and the backend is left Closed.
C13_ResetClosesThenOpens ==
    [][(result'.op = "handle_usb_reset" /\ Lifecycle = "Open") =>
          /\ io'[1] = IO("close", <<>>)
          /\ Tail(io') \in OpenCalls
          /\ UNCHANGED <<raise_policy, last_async_response, handlers>>
          /\ logged' = <<>>
          /\ client \notin openHandles'
          /\ IF io'[Len(io')] = LedgerClient(TRUE)
             THEN /\ result'.kind = "return"
                  /\ Lifecycle' = "Open"
                  /\ client' = acquired + 1
                  /\ acquired' = client'
                  /\ client' \notin openHandles
                  /\ openHandles' = {client'}
             ELSE /\ result'.kind = "raise"
                  /\ result'.exc = "TransportFailure"
                  /\ Lifecycle' = "Closed"
                  /\ client' = client
                  /\ openHandles' = {}]_vars

\* a reset that opened at its second attempt, with a stored response and a
\* policy set by the caller
C13_Witness ==
    /\ result.op = "handle_usb_reset"
    /\ result.kind = "return"
    /\ io = <<IO("close", <<>>), LedgerClient(FALSE), IO("sleep", <<>>),
              LedgerClient(TRUE)>>
    /\ client = 2
    /\ openHandles = {2}
    /\ raise_policy = RAISE_ALL
    /\ last_async_response = RAPDU(SW_OK, <<>>)

\* C14: a freshly constructed backend has policy RAISE_ALL_BUT_0x9000 and
\* last_async_response None; under that policy exchange raises for every
\* status word but 0x9000 and returns for 0x9000; no step other than the
\* caller's own assignment changes the raise policy.
C14_DefaultsAndPolicyOwnership ==
    /\ [](result.op = "__init__" =>
            /\ raise_policy = RAISE_ALL_BUT_0x9000
            /\ last_async_response = None)
    /\ []((result.op = "exchange" /\ raise_policy = RAISE_ALL_BUT_0x9000
              /\ rx.kind = "raw" /\ Len(rx.raw) >= 2) =>
            IF WireStatus(rx.raw) = 36864
            THEN result.kind = "return"
            ELSE result.kind = "raise" /\ result.exc = "ExceptionRAPDU")
    /\ [][raise_policy' # raise_policy => result'.op = "set_raise_policy"]_vars

\* the first exchange of a backend whose policy was never assigned
C14_Witness ==
    /\ result.op = "exchange"
    /\ acquired = 1
    /\ lastAsync = "none"
    /\ raise_policy = RAISE_ALL_BUT_0x9000
    /\ rx = RxRaw(<<111, 0>>)
    /\ result.kind = "raise"
    /\ result.rapdu = RAPDU(28416, <<>>)

\* C15: the UI and screen operations of the USB backend can be called in every
\* state and return; they make no transport call, log nothing and leave the
\* handle, the lifecycle, the raise policy, last_async_response and an open
\* async block as they were; the two compare operations return true.
UiOps ==
    {"right_click", "left_click", "both_click", "finger_touch",
     "wait_for_screen_change", "compare_screen_with_snapshot",
     "compare_screen_with_text", "get_current_screen_content"}

C15_UiOperationsAreNoOps ==
    /\ [][result'.op \in UiOps =>
            /\ result'.kind = "return"
            /\ io' = <<>>
            /\ rx' = RxNone
            /\ logged' = <<>>
            /\ (result'.op \in {"compare_screen_with_snapshot",
                                "compare_screen_with_text"} => result'.flag)
            /\ UNCHANGED <<client, openHandles, acquired, inScope, raise_policy,
                           last_async_response, asyncOpen, pending>>]_vars
    /\ [](/\ ENABLED right_click
          /\ ENABLED left_click
          /\ ENABLED both_click
          /\ ENABLED finger_touch
          /\ ENABLED wait_for_screen_change
          /\ ENABLED compare_screen_with_snapshot
          /\ ENABLED compare_screen_with_text
          /\ ENABLED get_current_screen_content)

\* a compare made inside an open async block
C15_Witness ==
    /\ result.op = "compare_screen_with_text"
    /\ result.kind = "return"
    /\ result.flag
    /\ asyncOpen
    /\ pending = 1
    /\ Lifecycle = "Open"

\* C16: close, called in any lifecycle state, completes without error and
\* leaves no handle open.
C16_CloseUnconditional ==
    [][result'.op = "__exit__" =>
          /\ result'.kind = "return"
          /\ openHandles' = {}]_vars

\* lines the latest call put on the console: every StreamHandler of the
\* shared logger writes each record to the same standard error stream
ConsoleLines == Len(logged) * handlers.streams

ShutdownDone == shutdown = ExitHooks + 1

\* C17: whatever number of backends the process constructed, each record of a
\* completed send or receive makes exactly one line on the console, and once
\* shutdown has run its hooks every persisted log stream that was opened has
\* been closed exactly once.
C17_OneLinePerSinkClosedOnce ==
    /\ (result.kind = "return" => ConsoleLines = Len(logged))
    /\ (ShutdownDone =>
          \A i \in DOMAIN handlers.files :
              \/ handlers.files[i].stream = "closed" /\ handlers.files[i].closes = 1
              \/ handlers.files[i].stream = "lazy" /\ handlers.files[i].closes = 0)

\* the part of C17 that the code keeps: no persisted stream is left open or
\* closed twice by the exit hooks, however many of them run
C17_StreamsClosedOnce ==
    /\ \A i \in DOMAIN handlers.files : handlers.files[i].closes <= 1
    /\ (ShutdownDone =>
          \A i \in DOMAIN handlers.files : handlers.files[i].stream # "open")

\* C18: a call emits one outgoing record for each frame it hands to the
\* transport and no other outgoing record, and one incoming record, carrying
\* the decoded status word, for each response it obtained (a response made
\* from a channel fault or rejected by the raise policy included) and no
\* other incoming record.
OutRecords == SelectSeq(logged, LAMBDA r : r.dir = "=>")
InRecords == SelectSeq(logged, LAMBDA r : r.dir = "<=")
Writes == SelectSeq(io, LAMBDA c : c.call = "write")

C18_LogExactlyOnIO ==
    /\ Len(OutRecords) = Len(Writes)
    /\ \A i \in DOMAIN OutRecords : OutRecords[i].data = Writes[i].data
    /\ IF rx.kind \in {"raw", "comm"}
       THEN InRecords = <<LogIn(result.rapdu)>>
       ELSE InRecords = <<>>

\* C20: send_raw, receive and exchange_raw on a backend that is not Open fail
\* with no transport call, no reply consumed and last_async_response, the
\* raise policy and the handle unchanged; every write and read of the
\* transport is made by a call on an Open backend.
RawOps == {"send_raw", "receive", "exchange_raw"}

TransportCalls(calls) == SelectSeq(calls, LAMBDA c : c.call \in {"write", "read"})

C19_AlternationAndMatching ==
    /\ [](pending = IF asyncOpen THEN 1 ELSE 0)
    /\ [][Lifecycle = "Open" /\ result'.op \in {"exchange", "exchange_async",
                                               "exchange_async_raw"} =>
            LET calls == TransportCalls(io')
            IN \/ /\ result'.exc = "FrameTooLarge"
                  /\ calls = <<>>
                  /\ pending' = pending
               \/ /\ result'.op = "exchange"
                  /\ pending = 0
                  /\ Len(calls) = 2
                  /\ calls[1].call = "write"
                  /\ calls[2] = IO("read", <<>>)
                  /\ pending' = 0
                  /\ rx'.kind \in {"raw", "comm"}
                  /\ result'.rapdu = caught(rx')
                  /\ last_async_response' = last_async_response
               \/ /\ result'.op = "exchange_async"
                  /\ result'.kind = "yield"
                  /\ pending = 0
                  /\ Len(calls) = 1
                  /\ calls[1].call = "write"
                  /\ pending' = 1
                  /\ last_async_response' = last_async_response
               \/ /\ result'.op = "exchange_async_raw"
                  /\ pending = 1
                  /\ calls = <<IO("read", <<>>)>>
                  /\ pending' = 0
                  /\ rx'.kind \in {"raw", "comm"}
                  /\ result'.rapdu = caught(rx')
                  /\ IF result'.kind = "return"
                     THEN last_async_response' = caught(rx')
                     ELSE last_async_response' = last_async_response]_vars

\* an exchange, then an async exchange that stored its answer, then an
\* exchange again
C19_Witness ==
    /\ result.op = "exchange"
    /\ result.kind = "return"
    /\ rx = RxRaw(<<144, 0>>)
    /\ result.rapdu = RAPDU(SW_OK, <<>>)
    /\ lastAsync = "ok"
    /\ last_async_response = RAPDU(SW_OK, <<1>>)
    /\ ~asyncOpen
    /\ pending = 0

====
